---- MODULE Spec2Model ----
(***************************************************************************)
(* TimeUnitConversion (qiskit/transpiler/passes/scheduling/                *)
(* time_unit_conversion.py): choose one time unit for a circuit graph and  *)
(* rewrite every Delay to it.                                              *)
(*                                                                         *)
(* Unit tags are strings in the code; here a tag is the tuple of its       *)
(* characters, so that str.endswith is computed on the last character.     *)
(* Numbers (durations, dt) are fixed-point: the integer n stands for the   *)
(* number n / Scale.                                                       *)
(***************************************************************************)
EXTENDS Integers, Sequences, FiniteSets, TLC

\* ------------------------------------------------------------------ bounds
MaxNodes == 2
MaxDur == 1
MaxRuns == 2

\* ------------------------------------------------------------ value domain
Scale == 10 * 10 * 10
NoDuration == 0 - 1

UNIT_DT == <<"d", "t">>
UNIT_S == <<"s">>
UNIT_MS == <<"m", "s">>
UNIT_US == <<"u", "s">>
UNIT_M == <<"m">>
UNIT_EMPTY == <<>>
UNIT_D == <<"d">>
NoneUnit == <<"None">>
ABSENT == <<"absent">>

DelayUnits == {UNIT_DT, UNIT_S, UNIT_MS}
RegistryUnits == {UNIT_DT, UNIT_S}
TagUniverse == {UNIT_DT, UNIT_S, UNIT_MS, UNIT_US, UNIT_M, UNIT_EMPTY, UNIT_D}
Keys == {"x", "cx"}
DtChoices == {{}, {3}}

endswith(unit, c) == Len(unit) > 0 /\ unit[Len(unit)] = c

\* ------------------------------------------------- InstructionDurations
EmptyRegistry ==
    [plain |-> [k \in Keys |-> ABSENT], params |-> {}, dt |-> {}]

\* standalone registries: entries in any unit
Registries ==
    { [plain |-> p, params |-> {}, dt |-> d] :
        p \in [Keys -> RegistryUnits \cup {ABSENT}], d \in DtChoices }

\* registries of a Target: its durations are held in seconds
TargetRegistries ==
    { [plain |-> p, params |-> {}, dt |-> d] :
        p \in [Keys -> {UNIT_S, ABSENT}], d \in DtChoices }

\* InstructionDurations.update(other_registry, dt)
update_from_registry(self, other, dt) ==
    [plain  |-> [k \in Keys |-> IF other.plain[k] # ABSENT THEN other.plain[k]
                                 ELSE self.plain[k]],
     params |-> self.params \cup other.params,
     dt     |-> IF dt # {} /\ dt # {0} THEN dt ELSE self.dt]

\* InstructionDurations.update(list of (gate, qubits, parameters, duration), dt)
update_from_list(self, items, dt) ==
    [plain  |-> self.plain,
     params |-> self.params \cup {it.gate : it \in items},
     dt     |-> IF dt # {} /\ dt # {0} THEN dt ELSE self.dt]

units_used(reg) == {reg.plain[k] : k \in Keys} \ {ABSENT}

dt_of(reg) == CHOOSE d \in reg.dt : TRUE

\* round(n / d), Python 3 rounding (half to even), n >= 0, d > 0
round_div(n, d) ==
    LET q == n \div d
        r == n % d
    IN  IF 2 * r < d THEN q
        ELSE IF 2 * r > d THEN q + 1
        ELSE IF q % 2 = 0 THEN q ELSE q + 1

\* apply_prefix(duration, unit): the value in seconds
apply_prefix(duration, unit) ==
    IF unit = UNIT_MS THEN duration \div 1000
    ELSE IF unit = UNIT_US THEN duration \div 1000000
    ELSE duration

norm_unit(from_unit) ==
    IF endswith(from_unit, "s") /\ from_unit # UNIT_S THEN UNIT_S ELSE from_unit

\* TRUE when InstructionDurations._convert_unit raises
convert_raises(reg, from_unit, to_unit) ==
    LET f == norm_unit(from_unit)
    IN  /\ f # to_unit
        /\ \/ reg.dt = {}
           \/ ~ ( (f = UNIT_S /\ to_unit = UNIT_DT)
                  \/ (f = UNIT_DT /\ to_unit = UNIT_S) )

\* InstructionDurations._convert_unit(duration, from_unit, to_unit)
_convert_unit(reg, duration, from_unit, to_unit) ==
    LET f == norm_unit(from_unit)
        d == IF f # from_unit THEN apply_prefix(duration, from_unit) ELSE duration
    IN  IF f = to_unit THEN d
        ELSE IF f = UNIT_S /\ to_unit = UNIT_DT
             THEN round_div(d, dt_of(reg)) * Scale
        ELSE (d * dt_of(reg)) \div Scale

\* ---------------------------------------------------------------- graph
DelayNodes ==
    { [name |-> "delay", duration |-> v * Scale, unit |-> u] :
        v \in 1..MaxDur, u \in DelayUnits }
GateNodes ==
    { [name |-> "x", duration |-> NoDuration, unit |-> UNIT_DT],
      [name |-> "x", duration |-> Scale, unit |-> UNIT_S] }
Nodes == DelayNodes \cup GateNodes
Graphs == UNION { [1..n -> Nodes] : n \in 0..MaxNodes }

CalibrationChoices == { {}, {[gate |-> "x", duration |-> 2 * Scale]} }
OptRegistries == {{}} \cup {{r} : r \in Registries}
OptTargets == {{}} \cup {{r} : r \in TargetRegistries}

\* ------------------------------------------------ TimeUnitConversion
VARIABLES
    inst_durations_arg,   \* constructor argument inst_durations: {} or {registry}
    target_arg,           \* constructor argument target (its durations()): {} or {registry}
    self_inst_durations,  \* self.inst_durations
    durations_provided,   \* self._durations_provided
    calibrations,         \* dag._calibrations_prop
    dag,                  \* the graph: sequence of op nodes
    property_set,         \* self.property_set
    pc,                   \* position in run
    inst_durations,       \* local inst_durations of run (merged registry)
    time_unit,            \* local time_unit of run
    error,                \* which TranspilerError was raised, "none" if none
    todo,                 \* remaining nodes of the loop over dag.op_nodes(Delay)
    runs,                 \* number of invocations of run started
    dag0,                 \* the graph as passed to the current invocation
    ps0,                  \* property_set at the start of the current invocation
    unit_set,             \* argument of a direct call of _unified
    unified               \* result of that call, "unset" before it

vars == << inst_durations_arg, target_arg, self_inst_durations, durations_provided,
           calibrations, dag, property_set, pc, inst_durations, time_unit, error,
           todo, runs, dag0, ps0, unit_set, unified >>

passVars == << inst_durations_arg, target_arg, self_inst_durations, durations_provided,
               calibrations, dag, property_set, pc, inst_durations, time_unit, error,
               todo, runs, dag0, ps0 >>

\* __init__ with the standalone registry taking precedence over the target
__init___standalone_first(arg_inst_durations, arg_target) ==
    [inst_durations      |-> IF arg_inst_durations # {}
                             THEN CHOOSE r \in arg_inst_durations : TRUE
                             ELSE IF arg_target # {} THEN CHOOSE r \in arg_target : TRUE
                             ELSE EmptyRegistry,
     durations_provided  |-> arg_inst_durations # {} \/ arg_target # {}]

\* TimeUnitConversion.__init__
__init__(arg_inst_durations, arg_target) ==
    [inst_durations      |-> IF arg_target # {} THEN CHOOSE r \in arg_target : TRUE
                             ELSE IF arg_inst_durations # {}
                                  THEN CHOOSE r \in arg_inst_durations : TRUE
                             ELSE EmptyRegistry,
     durations_provided  |-> arg_inst_durations # {} \/ arg_target # {}]

\* the (gate, qubits, parameters, schedule.duration) tuples of the calibrations
cal_durations(cals) == cals

\* _update_inst_durations with the calibrations folded in as (gate, qubits, duration)
_update_inst_durations_plain_cals(self_durations, provided, cals) ==
    LET c0 == EmptyRegistry
        asReg == [plain  |-> [k \in Keys |-> IF k \in {it.gate : it \in cals}
                                              THEN UNIT_DT ELSE ABSENT],
                  params |-> {}, dt |-> {}]
        c1 == IF cals # {} THEN update_from_registry(c0, asReg, c0.dt) ELSE c0
    IN  IF provided THEN update_from_registry(c1, self_durations, self_durations.dt)
        ELSE c1

\* TimeUnitConversion._update_inst_durations
_update_inst_durations(self_durations, provided, cals) ==
    LET c0 == EmptyRegistry
        c1 == IF cals # {} THEN update_from_list(c0, cal_durations(cals), c0.dt) ELSE c0
    IN  IF provided THEN update_from_registry(c1, self_durations, self_durations.dt)
        ELSE c1

\* dag.op_nodes(Delay): positions of the Delay nodes, in graph order
RECURSIVE op_nodes_from(_, _)
op_nodes_from(g, i) ==
    IF i > Len(g) THEN << >>
    ELSE IF g[i].name = "delay" THEN << i >> \o op_nodes_from(g, i + 1)
    ELSE op_nodes_from(g, i + 1)

\* op_nodes without the Delay filter
op_nodes_all(g) == [i \in 1..Len(g) |-> i]

op_nodes(g) == op_nodes_from(g, 1)

\* TimeUnitConversion._units_used_in_delays
_units_used_in_delays(g) ==
    { g[op_nodes(g)[j]].unit : j \in 1..Len(op_nodes(g)) }

\* _unified without the len(unit_set) == 1 test
_unified_any_dt(units) ==
    IF units = {} THEN "dt"
    ELSE IF UNIT_DT \in units THEN "dt"
    ELSE IF \A unit \in units : endswith(unit, "s") THEN "SI"
    ELSE "mixed"

\* TimeUnitConversion._unified
_unified(units) ==
    IF units = {} THEN "dt"
    ELSE IF Cardinality(units) = 1 /\ UNIT_DT \in units THEN "dt"
    ELSE IF \A unit \in units : endswith(unit, "s") THEN "SI"
    ELSE "mixed"

\* choose_unit without the test of inst_durations.dt
choose_unit_no_dt(reg, g) ==
    LET units_delay == _units_used_in_delays(g)
        units_other == units_used(reg)
        unified_unit == _unified(units_delay \cup units_other)
    IN  IF _unified(units_delay) = "mixed"
        THEN [time_unit |-> NoneUnit, error |-> "delays"]
        ELSE IF _unified(units_other) = "mixed"
        THEN [time_unit |-> NoneUnit, error |-> "instruction_durations"]
        ELSE IF unified_unit = "SI" THEN [time_unit |-> UNIT_S, error |-> "none"]
        ELSE IF unified_unit = "dt" THEN [time_unit |-> UNIT_DT, error |-> "none"]
        ELSE [time_unit |-> NoneUnit, error |-> "units"]

\* choose_unit with the registry units checked before the delay units
choose_unit_registry_first(reg, g) ==
    IF reg.dt # {} THEN [time_unit |-> UNIT_DT, error |-> "none"]
    ELSE
        LET units_delay == _units_used_in_delays(g)
            units_other == units_used(reg)
            unified_unit == _unified(units_delay \cup units_other)
        IN  IF _unified(units_other) = "mixed"
            THEN [time_unit |-> NoneUnit, error |-> "instruction_durations"]
            ELSE IF _unified(units_delay) = "mixed"
            THEN [time_unit |-> NoneUnit, error |-> "delays"]
            ELSE IF unified_unit = "SI" THEN [time_unit |-> UNIT_S, error |-> "none"]
            ELSE IF unified_unit = "dt" THEN [time_unit |-> UNIT_DT, error |-> "none"]
            ELSE [time_unit |-> NoneUnit, error |-> "units"]

\* choose_unit deciding from the delay units alone
choose_unit_delays_only(reg, g) ==
    IF reg.dt # {} THEN [time_unit |-> UNIT_DT, error |-> "none"]
    ELSE
        LET units_delay == _units_used_in_delays(g)
            units_other == units_used(reg)
            unified_unit == _unified(units_delay)
        IN  IF _unified(units_delay) = "mixed"
            THEN [time_unit |-> NoneUnit, error |-> "delays"]
            ELSE IF _unified(units_other) = "mixed"
            THEN [time_unit |-> NoneUnit, error |-> "instruction_durations"]
            ELSE IF unified_unit = "SI" THEN [time_unit |-> UNIT_S, error |-> "none"]
            ELSE IF unified_unit = "dt" THEN [time_unit |-> UNIT_DT, error |-> "none"]
            ELSE [time_unit |-> NoneUnit, error |-> "units"]

\* run, "Choose unit": the decided unit, or the error raised
choose_unit(reg, g) ==
    IF reg.dt # {} THEN [time_unit |-> UNIT_DT, error |-> "none"]
    ELSE
        LET units_delay == _units_used_in_delays(g)
            units_other == units_used(reg)
            unified_unit == _unified(units_delay \cup units_other)
        IN  IF _unified(units_delay) = "mixed"
            THEN [time_unit |-> NoneUnit, error |-> "delays"]
            ELSE IF _unified(units_other) = "mixed"
            THEN [time_unit |-> NoneUnit, error |-> "instruction_durations"]
            ELSE IF unified_unit = "SI" THEN [time_unit |-> UNIT_S, error |-> "none"]
            ELSE IF unified_unit = "dt" THEN [time_unit |-> UNIT_DT, error |-> "none"]
            ELSE [time_unit |-> NoneUnit, error |-> "units"]

\* rewrite_op without the assignment op.unit = time_unit
rewrite_op_keep_unit(reg, op, tu) ==
    [op EXCEPT !.duration = _convert_unit(reg, op.duration, op.unit, tu)]

\* run, loop body: the op substituted for a node
rewrite_op(reg, op, tu) ==
    [op EXCEPT !.duration = _convert_unit(reg, op.duration, op.unit, tu),
               !.unit = tu]

\* publish appending to the stored value instead of replacing it
publish_accumulate(ps, tu) == [ps EXCEPT !["time_unit"] = ps["time_unit"] \o tu]

\* run, self.property_set["time_unit"] = time_unit
publish(ps, tu) == [ps EXCEPT !["time_unit"] = tu]

Init ==
    /\ inst_durations_arg \in OptRegistries
    /\ target_arg \in OptTargets
    /\ self_inst_durations = __init__(inst_durations_arg, target_arg).inst_durations
    /\ durations_provided = __init__(inst_durations_arg, target_arg).durations_provided
    /\ calibrations \in CalibrationChoices
    /\ dag \in Graphs
    /\ property_set = [time_unit |-> NoneUnit]
    /\ pc = "Idle"
    /\ inst_durations = EmptyRegistry
    /\ time_unit = NoneUnit
    /\ error = "none"
    /\ todo = << >>
    /\ runs = 0
    /\ dag0 = dag
    /\ ps0 = property_set
    /\ unit_set = {}
    /\ unified = "unset"

\* the pipeline calls run(dag); run line 70
UpdateInstDurations ==
    /\ pc \in {"Idle", "Done"}
    /\ runs < MaxRuns
    /\ runs' = runs + 1
    /\ dag0' = dag
    /\ ps0' = property_set
    /\ inst_durations' =
           _update_inst_durations(self_inst_durations, durations_provided, calibrations)
    /\ time_unit' = NoneUnit
    /\ error' = "none"
    /\ todo' = << >>
    /\ pc' = "ChooseUnit"
    /\ UNCHANGED << inst_durations_arg, target_arg, self_inst_durations,
                    durations_provided, calibrations, dag, property_set,
                    unit_set, unified >>

\* ChooseUnit writing the property set before the units are checked
ChooseUnit_publish_first ==
    /\ pc = "ChooseUnit"
    /\ LET c == choose_unit(inst_durations, dag)
       IN  IF c.error # "none"
           THEN /\ pc' = "Failed"
                /\ error' = c.error
                /\ property_set' = publish(property_set, UNIT_DT)
                /\ UNCHANGED << time_unit, todo >>
           ELSE /\ pc' = "Rewriting"
                /\ time_unit' = c.time_unit
                /\ todo' = op_nodes(dag)
                /\ UNCHANGED << error, property_set >>
    /\ UNCHANGED << inst_durations_arg, target_arg, self_inst_durations,
                    durations_provided, calibrations, dag,
                    inst_durations, runs, dag0, ps0, unit_set, unified >>

\* run lines 72-99
ChooseUnit ==
    /\ pc = "ChooseUnit"
    /\ LET c == choose_unit(inst_durations, dag)
       IN  IF c.error # "none"
           THEN /\ pc' = "Failed"
                /\ error' = c.error
                /\ UNCHANGED << time_unit, todo >>
           ELSE /\ pc' = "Rewriting"
                /\ time_unit' = c.time_unit
                /\ todo' = op_nodes(dag)
                /\ UNCHANGED error
    /\ UNCHANGED << inst_durations_arg, target_arg, self_inst_durations,
                    durations_provided, calibrations, dag, property_set,
                    inst_durations, runs, dag0, ps0, unit_set, unified >>

\* run lines 102-106, one iteration
RewriteDelay ==
    /\ pc = "Rewriting"
    /\ todo # << >>
    /\ LET node == Head(todo)
           op == dag[node]
       IN  IF convert_raises(inst_durations, op.unit, time_unit)
           THEN /\ pc' = "Failed"
                /\ error' = "convert"
                /\ UNCHANGED << dag, todo >>
           ELSE /\ dag' = [dag EXCEPT ![node] = rewrite_op(inst_durations, op, time_unit)]
                /\ todo' = Tail(todo)
                /\ UNCHANGED << pc, error >>
    /\ UNCHANGED << inst_durations_arg, target_arg, self_inst_durations,
                    durations_provided, calibrations, property_set, inst_durations,
                    time_unit, runs, dag0, ps0, unit_set, unified >>

\* run lines 108-109
Publish ==
    /\ pc = "Rewriting"
    /\ todo = << >>
    /\ property_set' = publish(property_set, time_unit)
    /\ pc' = "Done"
    /\ UNCHANGED << inst_durations_arg, target_arg, self_inst_durations,
                    durations_provided, calibrations, dag, inst_durations, time_unit,
                    error, todo, runs, dag0, ps0, unit_set, unified >>

Next == UpdateInstDurations \/ ChooseUnit \/ RewriteDelay \/ Publish

Spec == Init /\ [][Next]_vars

\* ------------------------------------------- direct calls of _unified
InitUnified ==
    /\ inst_durations_arg = {}
    /\ target_arg = {}
    /\ self_inst_durations = __init__({}, {}).inst_durations
    /\ durations_provided = __init__({}, {}).durations_provided
    /\ calibrations = {}
    /\ dag = << >>
    /\ property_set = [time_unit |-> NoneUnit]
    /\ pc = "Idle"
    /\ inst_durations = EmptyRegistry
    /\ time_unit = NoneUnit
    /\ error = "none"
    /\ todo = << >>
    /\ runs = 0
    /\ dag0 = dag
    /\ ps0 = property_set
    /\ unit_set \in SUBSET TagUniverse
    /\ unified = "unset"

CallUnified ==
    /\ unified = "unset"
    /\ unified' = _unified(unit_set)
    /\ UNCHANGED << passVars, unit_set >>

NextUnified == CallUnified

SpecUnified == InitUnified /\ [][NextUnified]_vars

\* run as a whole: the loop over all Delay nodes, up to the first conversion
\* that raises
RECURSIVE rewrite_all(_, _, _, _)
rewrite_all(reg, g, nodes, tu) ==
    IF nodes = << >> THEN [dag |-> g, raised |-> FALSE]
    ELSE IF convert_raises(reg, g[Head(nodes)].unit, tu) THEN [dag |-> g, raised |-> TRUE]
    ELSE rewrite_all(reg,
                     [g EXCEPT ![Head(nodes)] = rewrite_op(reg, g[Head(nodes)], tu)],
                     Tail(nodes), tu)

\* run as a whole, for a pass built by __init__: how it ends, the graph and the
\* property set it leaves
run_outcome(self, cals, g, ps) ==
    LET reg == _update_inst_durations(self.inst_durations, self.durations_provided, cals)
        c == choose_unit(reg, g)
    IN  IF c.error # "none"
        THEN [pc |-> "Failed", error |-> c.error, dag |-> g, property_set |-> ps]
        ELSE LET r == rewrite_all(reg, g, op_nodes(g), c.time_unit)
             IN  IF r.raised
                 THEN [pc |-> "Failed", error |-> "convert", dag |-> r.dag,
                       property_set |-> ps]
                 ELSE [pc |-> "Done", error |-> "none", dag |-> r.dag,
                       property_set |-> publish(ps, c.time_unit)]

\* ---------------------------------------------------------- properties
TypeOK ==
    /\ pc \in {"Idle", "ChooseUnit", "Rewriting", "Failed", "Done"}
    /\ runs \in 0..MaxRuns
    /\ error \in {"none", "delays", "instruction_durations", "units", "convert"}
    /\ Len(dag) = Len(dag0)

\* the unit has been chosen, or a conflict raised, in the current invocation
Decided == pc \in {"Rewriting", "Failed", "Done"}

DelayIdx(g) == {i \in DOMAIN g : g[i].name = "delay"}
DelayUnitsOf(g) == {g[i].unit : i \in DelayIdx(g)}
RegistryUnitsOf(reg) == {u \in TagUniverse : \E k \in Keys : reg.plain[k] = u}

\* the three classes of a set of unit tags, as the specification words them
IsTicks(S) == S = {} \/ S = {UNIT_DT}
EndsInS(u) == u # << >> /\ u[Len(u)] = "s"
IsPhysical(S) == S # {} /\ \A u \in S : EndsInS(u)
IsMixed(S) == ~ IsTicks(S) /\ ~ IsPhysical(S)

UnitConflicts == {"delays", "instruction_durations", "units"}

\* C1: after a run that returns, every Delay carries the same unit tag, the one
\* published in property_set["time_unit"], which is "dt" or "s".
C1_UniformUnit ==
    pc = "Done" =>
        /\ property_set["time_unit"] \in {UNIT_DT, UNIT_S}
        /\ \A i \in DelayIdx(dag) : dag[i].unit = property_set["time_unit"]

C1_Witness ==
    /\ pc = "Done"
    /\ \E i, j \in DelayIdx(dag0) :
          /\ dag0[i].unit # dag0[j].unit
          /\ dag0[i].unit # property_set["time_unit"]
          /\ dag0[j].unit # property_set["time_unit"]

\* C2: when the merged registry has a fixed tick length, the run raises no unit
\* conflict, the decision is "dt", and every Delay ends in "dt", whatever the
\* units of the delays and of the registry.
C2_DtForcesTicks ==
    (Decided /\ inst_durations.dt # {}) =>
        /\ error \notin UnitConflicts
        /\ pc # "Failed"
        /\ time_unit = UNIT_DT
        /\ pc = "Done" =>
              /\ property_set["time_unit"] = UNIT_DT
              /\ \A i \in DelayIdx(dag) : dag[i].unit = UNIT_DT

C2_Witness ==
    /\ pc = "Done"
    /\ inst_durations.dt # {}
    /\ IsMixed(DelayUnitsOf(dag0))
    /\ IsPhysical(RegistryUnitsOf(inst_durations))
    /\ \A i \in DelayIdx(dag) : dag[i].unit = UNIT_DT

\* C3: without a fixed tick length, mixed delay units make the run fail naming
\* the delays (also when the registry units are mixed too), and unmixed delay
\* units with mixed registry units make it fail naming instruction_durations.
C3_ConflictSource ==
    (Decided /\ inst_durations.dt = {}) =>
        /\ IsMixed(DelayUnitsOf(dag0)) => (pc = "Failed" /\ error = "delays")
        /\ (~ IsMixed(DelayUnitsOf(dag0)) /\ IsMixed(RegistryUnitsOf(inst_durations)))
              => (pc = "Failed" /\ error = "instruction_durations")

C3_Witness ==
    /\ pc = "Failed"
    /\ error = "delays"
    /\ inst_durations.dt = {}
    /\ IsMixed(DelayUnitsOf(dag0))
    /\ IsMixed(RegistryUnitsOf(inst_durations))

\* C4: without a fixed tick length and with neither set mixed on its own, the
\* union of the two sets decides: "s" exactly when it is non-empty and all its
\* tags end with "s", "dt" exactly when it is empty or {"dt"}, failure otherwise.
C4_UnionDecides ==
    (/\ Decided
     /\ inst_durations.dt = {}
     /\ ~ IsMixed(DelayUnitsOf(dag0))
     /\ ~ IsMixed(RegistryUnitsOf(inst_durations))) =>
        LET U == DelayUnitsOf(dag0) \cup RegistryUnitsOf(inst_durations)
        IN  /\ (pc # "Failed" /\ time_unit = UNIT_S) <=> IsPhysical(U)
            /\ (pc # "Failed" /\ time_unit = UNIT_DT) <=> IsTicks(U)
            /\ pc = "Failed" <=> IsMixed(U)
            /\ pc = "Failed" => error = "units"

C4_Witness ==
    /\ pc = "Failed"
    /\ error = "units"
    /\ inst_durations.dt = {}
    /\ DelayUnitsOf(dag0) = {UNIT_DT}
    /\ IsPhysical(RegistryUnitsOf(inst_durations))

\* C5: a run that fails with a unit conflict leaves every node of the graph and
\* property_set["time_unit"] as they were when it was called; no unit was
\* decided and the rewrite loop was never entered.
C5_NoPartialOutput ==
    (pc = "Failed" /\ error \in UnitConflicts) =>
        /\ dag = dag0
        /\ property_set = ps0
        /\ time_unit = NoneUnit
        /\ todo = << >>

C5_Witness ==
    /\ pc = "Failed"
    /\ error \in UnitConflicts
    /\ DelayIdx(dag0) # {}
    /\ \E i \in DelayIdx(dag0) : dag0[i].unit = UNIT_MS
    /\ property_set["time_unit"] = NoneUnit

\* C6: with a target supplied, any other standalone registry, or none, builds
\* the same pass, and the outcome of the run (success or failure, the graph, the
\* published unit) is the outcome of that pass on the same calibrations and graph.
C6_StandaloneIgnored ==
    (pc \in {"Done", "Failed"} /\ target_arg # {}) =>
        LET self == [inst_durations |-> self_inst_durations,
                     durations_provided |-> durations_provided]
        IN  /\ \A other \in OptRegistries : __init__(other, target_arg) = self
            /\ run_outcome(self, calibrations, dag0, ps0)
                   = [pc |-> pc, error |-> error, dag |-> dag,
                      property_set |-> property_set]

C6_Witness ==
    /\ pc = "Done"
    /\ target_arg # {}
    /\ inst_durations_arg # {}
    /\ \A r \in inst_durations_arg : r.dt # {} /\ UNIT_DT \in RegistryUnitsOf(r)
    /\ \A r \in target_arg : r.dt = {}
    /\ time_unit = UNIT_S
    /\ DelayIdx(dag0) # {}

\* C7: _unified gives "dt" for the empty set and for {"dt"}, "SI" for every
\* non-empty set whose tags all end with "s", and "mixed" for every other set,
\* among them every set holding both "dt" and a tag ending with "s".
C7_Classification ==
    unified # "unset" =>
        /\ unified \in {"dt", "SI", "mixed"}
        /\ IsTicks(unit_set) <=> unified = "dt"
        /\ IsPhysical(unit_set) <=> unified = "SI"
        /\ IsMixed(unit_set) <=> unified = "mixed"
        /\ (UNIT_DT \in unit_set /\ \E u \in unit_set : EndsInS(u))
              => unified = "mixed"

C7_Witness ==
    /\ unified = "mixed"
    /\ UNIT_DT \in unit_set
    /\ UNIT_MS \in unit_set

\* C8: the registry units are those of the standalone or target registry alone;
\* calibrations add none.  With calibrations, no registry, no fixed tick length
\* and every Delay in an SI unit, the run succeeds with "s".
C8_CalibrationsAddNoUnit ==
    Decided =>
        /\ RegistryUnitsOf(inst_durations) =
              IF target_arg # {} THEN UNION {RegistryUnitsOf(r) : r \in target_arg}
              ELSE UNION {RegistryUnitsOf(r) : r \in inst_durations_arg}
        /\ (/\ calibrations # {}
            /\ inst_durations_arg = {}
            /\ target_arg = {}
            /\ IsPhysical(DelayUnitsOf(dag0))) =>
               /\ RegistryUnitsOf(inst_durations) = {}
               /\ pc # "Failed"
               /\ time_unit = UNIT_S
               /\ pc = "Done" => property_set["time_unit"] = UNIT_S

C8_Witness ==
    /\ pc = "Done"
    /\ calibrations # {}
    /\ inst_durations.params # {}
    /\ inst_durations_arg = {}
    /\ target_arg = {}
    /\ IsPhysical(DelayUnitsOf(dag0))
    /\ property_set["time_unit"] = UNIT_S

C10_Idempotent ==
    runs >= 2 =>
        /\ pc # "Failed"
        /\ Decided => time_unit = ps0["time_unit"]
        /\ pc = "Done" =>
              /\ property_set = ps0
              /\ property_set["time_unit"] \in {UNIT_DT, UNIT_S}
              /\ dag = dag0

C10_Witness ==
    /\ runs = 2
    /\ pc = "Done"
    /\ \E i \in DelayIdx(dag) : dag[i].duration \notin {v * Scale : v \in 1..MaxDur}

====
